---- MODULE Spec2Model ----
(***************************************************************************)
(* The assessment workflow of AssessmentQueuePage (src/pages/              *)
(* AssessmentQueuePage.tsx): the component state (pendingIdeas, loading,   *)
(* selectedIdea, submitting, scores, rationales), its handlers, the store  *)
(* calls they leave outstanding at each await, and the continuations that  *)
(* run when a store call settles.                                          *)
(*                                                                         *)
(* ideaService (the idea store) is not part of the source at hand; it is   *)
(* modelled from the store interface of the specification: every call is   *)
(* applied atomically at the moment it settles, and outstanding calls      *)
(* settle in any order.                                                    *)
(***************************************************************************)
EXTENDS Integers, Sequences, FiniteSets, Bags

(***************************************************************************)
(* Bounds of the model.                                                    *)
(***************************************************************************)
\* number of ideas held by the store
NumIdeas == 2
\* store calls the session may have outstanding when the reviewer starts one more
MaxInFlight == 2
\* unscored dimensions the reviewer may leave above the one being scored on the page
MaxGaps == 0
\* entries by which a draft may differ from the plain scorecard, on which every scored
\* key is a dimension at the first level and no rationale is written
MaxVaried == 1

(***************************************************************************)
(* Data                                                                    *)
(***************************************************************************)
Ideas == 1..NumIdeas

\* isComplete's requiredDimensions, in the order of the source
requiredDimensions ==
    << "businessGrowth", "costEfficiency", "businessResilience", "businessAgility",
       "technicalFeasibility", "internalReadiness", "externalReadiness" >>

Dimensions == { requiredDimensions[k] : k \in 1..Len(requiredDimensions) }

\* a key that is none of the seven: scores and rationales are Record<string, ...>
OtherKeys == { "unknownDimension" }

Keys == Dimensions \cup OtherKeys

\* ScoreLevel values
ScoreLevels == { "High", "Medium" }

\* free-text rationales the reviewer types
Texts == { "ok" }

\* reading a key that an object does not hold
Undefined == "undefined"

\* the object {}
EmptyMap == [ k \in Keys |-> Undefined ]

\* selectedIdea === null
NoIdea == [ id |-> 0, status |-> "none" ]

VARIABLES
    status,         \* store: status of every idea
    pendingIdeas,   \* useState<Idea[]>([])
    loading,        \* useState(true)
    selectedIdea,   \* useState<Idea | null>(null)
    submitting,     \* useState(false)
    scores,         \* useState<Record<string, ScoreLevel>>({})
    rationales,     \* useState<Record<string, string>>({})
    updCalls,       \* outstanding updateIdeaStatus(id, 'under_review') calls, per idea
    subCalls,       \* bag of outstanding submitAssessment(id, record) calls
    fetchQ1,        \* fetchPendingIdeas runs awaiting getIdeasByStatus('submitted')
    fetchQ2,        \* bag of fetchPendingIdeas runs awaiting getIdeasByStatus('under_review'),
                    \* each with the `submitted` result it holds
    toast,          \* the notification shown by the latest step ("none" if none)
    last,           \* the latest step: the handler or continuation that ran
    assigned,       \* history: the keys handleScoreChange has set since scores was last {}
    owners          \* history: the ideas that were selected when the present content of
                    \* scores and rationales was entered

storeVars == << status >>
draftVars == << selectedIdea, scores, rationales, assigned, owners >>
callVars  == << updCalls, subCalls, fetchQ1, fetchQ2 >>
vars == << status, pendingIdeas, loading, selectedIdea, submitting,
           scores, rationales, updCalls, subCalls, fetchQ1, fetchQ2, toast, last,
           assigned, owners >>

(***************************************************************************)
(* Helpers                                                                 *)
(***************************************************************************)
\* a JavaScript value used as a condition
Truthy(v) == v # Undefined /\ v # ""

\* position of a dimension on the scorecard
DimIndex(d) == CHOOSE k \in 1..Len(requiredDimensions) : requiredDimensions[k] = d

\* number of store calls outstanding
InFlight ==
    LET RECURSIVE Sum(_)
        Sum(S) == IF S = {} THEN 0
                  ELSE LET i == CHOOSE x \in S : TRUE IN updCalls[i] + Sum(S \ {i})
    IN Sum(Ideas) + BagCardinality(subCalls) + fetchQ1 + BagCardinality(fetchQ2)

\* the ideas of status s in a store st, in the order of the store
ListByStatus(st, s) ==
    SelectSeq([ i \in 1..NumIdeas |-> [ id |-> i, status |-> st[i] ] ],
              LAMBDA idea : idea.status = s)

\* ideaService.getIdeasByStatus(s): the ideas of that status as the store holds them now
getIdeasByStatus(s) == ListByStatus(status, s)

\* isComplete with the last required dimension left out of the list
isComplete_SixDimensions ==
    \A k \in 1..(Len(requiredDimensions) - 1) : Truthy(scores[requiredDimensions[k]])

\* isComplete with some() in the place of every()
isComplete_SomeDimension ==
    \E k \in 1..Len(requiredDimensions) : Truthy(scores[requiredDimensions[k]])

\* isComplete()
isComplete == \A k \in 1..Len(requiredDimensions) : Truthy(scores[requiredDimensions[k]])

\* the record handleSubmitAssessment passes to ideaService.submitAssessment
AssessmentRecord ==
    [ scores     |-> [ d \in Dimensions |-> scores[d] ],
      rationales |-> rationales,
      assessedBy |-> "Assessment Team" ]

(***************************************************************************)
(* Handlers: the part of each that runs before its first await             *)
(***************************************************************************)
\* fetchPendingIdeas up to its first await: setLoading(true), then the query for 'submitted'
fetchPendingIdeas ==
    /\ loading' = TRUE
    /\ fetchQ1' = fetchQ1 + 1

\* the test of handleSelectIdea with the status left unchecked
MarksUnderReview_Always(idea) == idea.status # "assessed"

\* the test of handleSelectIdea: if (idea.status === 'submitted')
MarksUnderReview(idea) == idea.status = "submitted"

\* handleSelectIdea that resets the draft only when another idea is selected
handleSelectIdea_KeepsOnReselect(idea) ==
    /\ selectedIdea' = idea
    /\ IF idea.id = selectedIdea.id
          THEN UNCHANGED << scores, rationales, assigned, owners >>
          ELSE /\ scores' = EmptyMap
               /\ rationales' = EmptyMap
               /\ assigned' = {}
               /\ owners' = {}
    /\ IF MarksUnderReview(idea)
          THEN updCalls' = [ updCalls EXCEPT ![idea.id] = @ + 1 ]
          ELSE UNCHANGED updCalls
    /\ toast' = "none"
    /\ last' = "select"
    /\ UNCHANGED << storeVars, pendingIdeas, loading, submitting, subCalls, fetchQ1, fetchQ2 >>

\* handleSelectIdea without setScores({}) and setRationales({})
handleSelectIdea_KeepsDraft(idea) ==
    /\ selectedIdea' = idea
    /\ IF MarksUnderReview(idea)
          THEN updCalls' = [ updCalls EXCEPT ![idea.id] = @ + 1 ]
          ELSE UNCHANGED updCalls
    /\ toast' = "none"
    /\ last' = "select"
    /\ UNCHANGED << storeVars, pendingIdeas, loading, submitting, scores, rationales,
                    assigned, owners, subCalls, fetchQ1, fetchQ2 >>

\* handleSelectIdea(idea) up to its await
handleSelectIdea(idea) ==
    /\ selectedIdea' = idea
    /\ scores' = EmptyMap
    /\ rationales' = EmptyMap
    /\ assigned' = {}
    /\ owners' = {}
    /\ IF MarksUnderReview(idea)
          THEN updCalls' = [ updCalls EXCEPT ![idea.id] = @ + 1 ]
          ELSE UNCHANGED updCalls
    /\ toast' = "none"
    /\ last' = "select"
    /\ UNCHANGED << storeVars, pendingIdeas, loading, submitting, subCalls, fetchQ1, fetchQ2 >>

\* handleScoreChange(dimension, score)
handleScoreChange(dimension, score) ==
    /\ scores' = [ scores EXCEPT ![dimension] = score ]
    /\ assigned' = assigned \cup { dimension }
    /\ owners' = owners \cup { selectedIdea.id }
    /\ toast' = "none"
    /\ last' = "score"
    /\ UNCHANGED << storeVars, pendingIdeas, loading, selectedIdea, submitting,
                    rationales, callVars >>

\* handleRationaleChange(dimension, rationale)
handleRationaleChange(dimension, rationale) ==
    /\ rationales' = [ rationales EXCEPT ![dimension] = rationale ]
    /\ owners' = owners \cup { selectedIdea.id }
    /\ toast' = "none"
    /\ last' = "rationale"
    /\ UNCHANGED << storeVars, pendingIdeas, loading, selectedIdea, submitting,
                    scores, assigned, callVars >>

\* a Cancel that puts the abandoned idea back to submitted in the store
cancelSelection_Reverts ==
    /\ selectedIdea' = NoIdea
    /\ status' = [ i \in Ideas |-> IF i = selectedIdea.id THEN "submitted" ELSE status[i] ]
    /\ toast' = "none"
    /\ last' = "cancel"
    /\ UNCHANGED << pendingIdeas, loading, submitting, scores, rationales,
                    assigned, owners, callVars >>

\* the Cancel button's onClick: () => setSelectedIdea(null)
cancelSelection ==
    /\ selectedIdea' = NoIdea
    /\ toast' = "none"
    /\ last' = "cancel"
    /\ UNCHANGED << storeVars, pendingIdeas, loading, submitting, scores, rationales,
                    assigned, owners, callVars >>

\* the guard of handleSubmitAssessment without the completeness test
SubmitRefused_SelectionOnly == selectedIdea = NoIdea

\* the guard of handleSubmitAssessment: if (!selectedIdea || !isComplete())
SubmitRefused == selectedIdea = NoIdea \/ ~isComplete

\* handleSubmitAssessment() up to its await
handleSubmitAssessment ==
    IF SubmitRefused
       THEN /\ toast' = "warning"
            /\ last' = "submitRefused"
            /\ UNCHANGED << storeVars, pendingIdeas, loading, draftVars, submitting,
                            callVars >>
       ELSE /\ submitting' = TRUE
            /\ subCalls' = subCalls (+) SetToBag({ [ id |-> selectedIdea.id,
                                                     record |-> AssessmentRecord ] })
            /\ toast' = "none"
            /\ last' = "submit"
            /\ UNCHANGED << storeVars, pendingIdeas, loading, draftVars, updCalls,
                            fetchQ1, fetchQ2 >>

(***************************************************************************)
(* What the page renders: which controls the reviewer can act on           *)
(***************************************************************************)
\* if (loading) return the spinner: neither the queue nor the panel is rendered
QueueRendered == ~loading

\* {selectedIdea ? <panel> : <no-selection>}
PanelRendered == ~loading /\ selectedIdea # NoIdea

\* the button's disabled without the submitting flag
SubmitDisabled_IgnoresSubmitting == ~isComplete

\* disabled={!isComplete() || submitting}
SubmitDisabled == ~isComplete \/ submitting

(***************************************************************************)
(* The reviewer's actions                                                  *)
(***************************************************************************)
\* click on the k-th card of the queue: onClick={() => handleSelectIdea(idea)}
ClickIdea ==
    \E k \in 1..Len(pendingIdeas) :
        /\ QueueRendered
        /\ MarksUnderReview(pendingIdeas[k]) => InFlight < MaxInFlight
        /\ handleSelectIdea(pendingIdeas[k])

\* the entries of a draft that are not a dimension scored at the first level
Varied(sc, ra) ==
    Cardinality({ k \in Keys : sc[k] # Undefined
                                 /\ ~(k \in Dimensions /\ sc[k] = "High") })
        + Cardinality({ k \in Keys : ra[k] # Undefined })

\* the unscored dimensions above key d on the scorecard (none for another key)
Gaps(d) ==
    IF d \in Dimensions
       THEN Cardinality({ k \in 1..(DimIndex(d) - 1) :
                            scores[requiredDimensions[k]] = Undefined })
       ELSE 0

\* ScoreCard's onScoreChange: any key, any level
ChangeScore ==
    \E d \in Keys : \E lvl \in ScoreLevels :
        /\ PanelRendered
        /\ Gaps(d) <= MaxGaps
        /\ Varied([ scores EXCEPT ![d] = lvl ], rationales) <= MaxVaried
        /\ handleScoreChange(d, lvl)

\* ScoreCard's onRationaleChange: any key, any text
ChangeRationale ==
    \E d \in Keys : \E t \in Texts :
        /\ PanelRendered
        /\ Varied(scores, [ rationales EXCEPT ![d] = t ]) <= MaxVaried
        /\ handleRationaleChange(d, t)

\* click on Cancel
ClickCancel ==
    /\ PanelRendered
    /\ cancelSelection

\* click on Submit Assessment
ClickSubmit ==
    /\ PanelRendered
    /\ ~SubmitDisabled
    /\ InFlight < MaxInFlight
    /\ handleSubmitAssessment

\* handleSubmitAssessment called without the button, whatever the page renders: the
\* operation as a caller of the controller reaches it
InvokeSubmit ==
    /\ ~SubmitRefused => InFlight < MaxInFlight
    /\ handleSubmitAssessment

(***************************************************************************)
(* The store settles a call and the handler that awaits it resumes         *)
(***************************************************************************)
\* ideaService.updateIdeaStatus(id, 'under_review') as the store applies it
updateIdeaStatus(id, newStatus) == [ status EXCEPT ![id] = newStatus ]

\* handleSelectIdea after await ideaService.updateIdeaStatus(...): fetchPendingIdeas()
UpdateResolves ==
    \E i \in Ideas :
        /\ updCalls[i] > 0
        /\ updCalls' = [ updCalls EXCEPT ![i] = @ - 1 ]
        /\ status' = updateIdeaStatus(i, "under_review")
        /\ fetchPendingIdeas
        /\ toast' = "none"
        /\ last' = "updateResolved"
        /\ UNCHANGED << pendingIdeas, draftVars, submitting, subCalls, fetchQ2 >>

\* the update is rejected: handleSelectIdea has no catch, the rest of it never runs
UpdateFails ==
    \E i \in Ideas :
        /\ updCalls[i] > 0
        /\ updCalls' = [ updCalls EXCEPT ![i] = @ - 1 ]
        /\ toast' = "none"
        /\ last' = "updateFailed"
        /\ UNCHANGED << storeVars, pendingIdeas, loading, draftVars, submitting,
                        subCalls, fetchQ1, fetchQ2 >>

\* the success path without setScores({}) and setRationales({})
SubmitResolves_KeepsDraft ==
    \E c \in BagToSet(subCalls) :
        /\ subCalls' = subCalls (-) SetToBag({ c })
        /\ status' = [ status EXCEPT ![c.id] = "assessed" ]
        /\ toast' = "success"
        /\ selectedIdea' = NoIdea
        /\ fetchPendingIdeas
        /\ submitting' = FALSE
        /\ last' = "submitResolved"
        /\ UNCHANGED << pendingIdeas, scores, rationales, assigned, owners, updCalls,
                        fetchQ2 >>

\* handleSubmitAssessment after its await resolves, and its finally
SubmitResolves ==
    \E c \in BagToSet(subCalls) :
        /\ subCalls' = subCalls (-) SetToBag({ c })
        /\ status' = [ status EXCEPT ![c.id] = "assessed" ]
        /\ toast' = "success"
        /\ selectedIdea' = NoIdea
        /\ scores' = EmptyMap
        /\ rationales' = EmptyMap
        /\ assigned' = {}
        /\ owners' = {}
        /\ fetchPendingIdeas
        /\ submitting' = FALSE
        /\ last' = "submitResolved"
        /\ UNCHANGED << pendingIdeas, updCalls, fetchQ2 >>

\* the failure path without the finally: setSubmitting(false) only after a success
SubmitFails_NoFinally ==
    \E c \in BagToSet(subCalls) :
        /\ subCalls' = subCalls (-) SetToBag({ c })
        /\ toast' = "error"
        /\ last' = "submitFailed"
        /\ UNCHANGED << storeVars, pendingIdeas, loading, draftVars, submitting, updCalls,
                        fetchQ1, fetchQ2 >>

\* handleSubmitAssessment's catch, and its finally
SubmitFails ==
    \E c \in BagToSet(subCalls) :
        /\ subCalls' = subCalls (-) SetToBag({ c })
        /\ toast' = "error"
        /\ submitting' = FALSE
        /\ last' = "submitFailed"
        /\ UNCHANGED << storeVars, pendingIdeas, loading, draftVars, updCalls,
                        fetchQ1, fetchQ2 >>

\* fetchPendingIdeas after await getIdeasByStatus('submitted')
SubmittedQueryResolves ==
    /\ fetchQ1 > 0
    /\ fetchQ1' = fetchQ1 - 1
    /\ fetchQ2' = fetchQ2 (+) SetToBag({ getIdeasByStatus("submitted") })
    /\ toast' = "none"
    /\ last' = "querySubmitted"
    /\ UNCHANGED << storeVars, pendingIdeas, loading, draftVars, submitting,
                    updCalls, subCalls >>

\* fetchPendingIdeas after await getIdeasByStatus('under_review')
UnderReviewQueryResolves ==
    \E submitted \in BagToSet(fetchQ2) :
        /\ fetchQ2' = fetchQ2 (-) SetToBag({ submitted })
        /\ pendingIdeas' = submitted \o getIdeasByStatus("under_review")
        /\ loading' = FALSE
        /\ toast' = "none"
        /\ last' = "queryUnderReview"
        /\ UNCHANGED << storeVars, draftVars, submitting, updCalls, subCalls, fetchQ1 >>

(***************************************************************************)
(* Specifications                                                          *)
(***************************************************************************)
\* the store when the page is mounted: new ideas, and one already under review
InitStatus == [ i \in Ideas |-> IF i = NumIdeas THEN "under_review" ELSE "submitted" ]

\* the component as mounted: useEffect has called fetchPendingIdeas
Init ==
    /\ status = InitStatus
    /\ pendingIdeas = << >>
    /\ loading = TRUE
    /\ selectedIdea = NoIdea
    /\ submitting = FALSE
    /\ scores = EmptyMap
    /\ rationales = EmptyMap
    /\ updCalls = [ i \in Ideas |-> 0 ]
    /\ subCalls = EmptyBag
    /\ fetchQ1 = 1
    /\ fetchQ2 = EmptyBag
    /\ toast = "none"
    /\ last = "mount"
    /\ assigned = {}
    /\ owners = {}

Next ==
    \/ ClickIdea
    \/ ChangeScore
    \/ ChangeRationale
    \/ ClickCancel
    \/ ClickSubmit
    \/ UpdateResolves
    \/ UpdateFails
    \/ SubmitResolves
    \/ SubmitFails
    \/ SubmittedQueryResolves
    \/ UnderReviewQueryResolves

\* the page as the reviewer drives it through the rendered controls
Spec == Init /\ [][Next]_vars

NextDirect == Next \/ InvokeSubmit

\* the same, with handleSubmitAssessment also called directly, in any state of the
\* page and of the draft
SpecDirect == Init /\ [][NextDirect]_vars

(***************************************************************************)
(* The draft: the handlers of the scorecard called with any key, any      *)
(* level, in any order, on a page whose queue is loaded; cards are         *)
(* selected and cancelled, and no assessment is submitted                  *)
(***************************************************************************)
\* handleScoreChange with any key and any level, in any order
SetScore ==
    \E d \in Keys : \E lvl \in ScoreLevels :
        /\ PanelRendered
        /\ Varied([ scores EXCEPT ![d] = lvl ], rationales) <= MaxVaried
        /\ handleScoreChange(d, lvl)

\* handleRationaleChange with any key and any text
SetRationale ==
    \E d \in Keys : \E t \in Texts :
        /\ PanelRendered
        /\ Varied(scores, [ rationales EXCEPT ![d] = t ]) <= MaxVaried
        /\ handleRationaleChange(d, t)

\* the page once the fetchPendingIdeas of the mount has completed
InitDraft ==
    /\ status = InitStatus
    /\ pendingIdeas = ListByStatus(InitStatus, "submitted")
                        \o ListByStatus(InitStatus, "under_review")
    /\ loading = FALSE
    /\ selectedIdea = NoIdea
    /\ submitting = FALSE
    /\ scores = EmptyMap
    /\ rationales = EmptyMap
    /\ updCalls = [ i \in Ideas |-> 0 ]
    /\ subCalls = EmptyBag
    /\ fetchQ1 = 0
    /\ fetchQ2 = EmptyBag
    /\ toast = "none"
    /\ last = "queryUnderReview"
    /\ assigned = {}
    /\ owners = {}

NextDraft ==
    \/ ClickIdea
    \/ SetScore
    \/ SetRationale
    \/ ClickCancel
    \/ UpdateResolves
    \/ UpdateFails
    \/ SubmittedQueryResolves
    \/ UnderReviewQueryResolves

SpecDraft == InitDraft /\ [][NextDraft]_vars

(***************************************************************************)
(* Properties                                                              *)
(***************************************************************************)
\* the dimensions of the scorecard that hold a score
Scored == { d \in Dimensions : scores[d] # Undefined }

\* the submitAssessment calls a step hands to the store
Issued(c) == CopiesIn(c, subCalls') > CopiesIn(c, subCalls)

\* the submitAssessment calls a step settles
Settled(c) == CopiesIn(c, subCalls') < CopiesIn(c, subCalls)

\* position of a status on the path submitted -> under_review -> assessed
Rank(s) == CASE s = "submitted" -> 0 [] s = "under_review" -> 1 [] OTHER -> 2

\* C1: handleSubmitAssessment invoked with no idea selected, or with a required
\* dimension unscored, issues no store call, leaves selection, scores and rationales
\* as they are, and shows the validation warning.
C1_RefusedSubmitIssuesNoCall ==
    [][ ( /\ last' \in { "submit", "submitRefused" }
          /\ (selectedIdea = NoIdea \/ Scored # Dimensions) )
        => ( /\ UNCHANGED << status, updCalls, subCalls, fetchQ1, fetchQ2 >>
             /\ UNCHANGED << selectedIdea, scores, rationales >>
             /\ toast' = "warning" ) ]_vars

\* C1 witness: a submit was refused with an idea selected and six of seven scored
C1_Witness ==
    /\ last = "submitRefused"
    /\ toast = "warning"
    /\ selectedIdea # NoIdea
    /\ Cardinality(Scored) = 6

\* C2: every record handed to the store's submitAssessment holds a score level for
\* each of the seven dimensions, and at the moment it is handed over it is the
\* draft: the selected idea's id, the draft's seven scores, its rationale map and
\* the attribution "Assessment Team".
C2_SubmittedRecordIsTheCompleteDraft ==
    /\ [](\A c \in BagToSet(subCalls) :
             /\ \A d \in Dimensions : c.record.scores[d] \in ScoreLevels
             /\ c.record.assessedBy = "Assessment Team")
    /\ [][ \A c \in BagToSet(subCalls') :
             Issued(c) => /\ c.id = selectedIdea.id
                          /\ \A d \in Dimensions : c.record.scores[d] = scores[d]
                          /\ c.record.rationales = rationales ]_vars

\* C2 witness: a record is with the store whose levels differ between dimensions
C2_Witness ==
    \E c \in BagToSet(subCalls) :
        /\ c.record.scores["businessGrowth"] = "High"
        /\ c.record.scores["costEfficiency"] = "Medium"
        /\ c.record.scores["externalReadiness"] = "High"

\* C3: no step moves the store status of an idea backward on the path
\* submitted -> under_review -> assessed.
C3_StatusNeverRegresses ==
    [][ \A i \in Ideas : Rank(status'[i]) >= Rank(status[i]) ]_vars

\* C4: the store never holds two outstanding submitAssessment calls for the same
\* idea and the same draft state.
C4_NoDuplicateSubmitOutstanding ==
    \A c \in BagToSet(subCalls) : CopiesIn(c, subCalls) = 1

\* C4 witness: a submit is outstanding while the panel still shows the same idea
\* with the same complete draft
C4_Witness ==
    /\ PanelRendered
    /\ submitting
    /\ \E c \in BagToSet(subCalls) :
          c.id = selectedIdea.id /\ c.record = AssessmentRecord

\* C5: when a submitAssessment call fails, the draft holds the scores and
\* rationales of the call and the idea of the call is still selected.
C5_FailedSubmitKeepsTheDraftOfTheCall ==
    [][ \A c \in BagToSet(subCalls) :
          (last' = "submitFailed" /\ Settled(c))
          => ( /\ selectedIdea'.id = c.id
               /\ \A d \in Dimensions : scores'[d] = c.record.scores[d]
               /\ rationales' = c.record.rationales ) ]_vars

\* C6: right after a submitAssessment call succeeds, no idea is selected, scores and
\* rationales are empty and a refresh of the pending list is under way.
C6_SuccessClearsDraftAndRefreshes ==
    last = "submitResolved"
    => ( /\ selectedIdea = NoIdea
         /\ scores = EmptyMap
         /\ rationales = EmptyMap
         /\ loading
         /\ fetchQ1 >= 1 )

\* C6 witness: a submit succeeded and the idea is assessed
C6_Witness ==
    /\ last = "submitResolved"
    /\ toast = "success"
    /\ \E i \in Ideas : status[i] = "assessed"

\* C7: while a submitAssessment call is outstanding, neither handleSelectIdea nor a
\* second handleSubmitAssessment is run.
C7_NoSelectOrSubmitWhileSubmitting ==
    [][ subCalls # EmptyBag => last' \notin { "select", "submit" } ]_vars

\* C8: right after Cancel, no idea is selected and scores and rationales are empty.
C8_CancelResetsTheDraft ==
    last = "cancel"
    => ( /\ selectedIdea = NoIdea
         /\ scores = EmptyMap
         /\ rationales = EmptyMap )

\* C9: handleSelectIdea called with an idea whose status is under_review issues no
\* updateIdeaStatus call, starts no refresh and leaves every store status as it is.
C9_SelectingUnderReviewWritesNothing ==
    [][ (last' = "select" /\ selectedIdea'.status = "under_review")
        => UNCHANGED << status, updCalls, fetchQ1, fetchQ2, loading >> ]_vars

\* C9 witness: an under_review idea has just been selected with no store call outstanding
C9_Witness ==
    /\ last = "select"
    /\ selectedIdea.status = "under_review"
    /\ status[selectedIdea.id] = "under_review"
    /\ InFlight = 0

\* C10: updateIdeaStatus(id, under_review) is issued for an idea only while the store
\* still holds it as submitted and no such write for it is already outstanding: a
\* second selection issues no second write.
C10_StatusWriteIssuedOnce ==
    [][ \A i \in Ideas :
          updCalls'[i] > updCalls[i] => (status[i] = "submitted" /\ updCalls[i] = 0) ]_vars

\* C11: isComplete() is true exactly when each of the seven required dimensions has
\* been given a score by handleScoreChange since the scores were last reset, whatever
\* the order, the overwrites, the other keys and the rationales.
C11_CompleteIffAllSevenAssigned ==
    isComplete <=> Dimensions \subseteq assigned

\* C11 witness: the draft has just become complete by a score, with no rationale
\* and with levels that differ between dimensions
C11_Witness ==
    /\ isComplete
    /\ last = "score"
    /\ rationales = EmptyMap
    /\ scores["businessGrowth"] = "Medium"
    /\ scores["costEfficiency"] = "High"

\* C12: right after handleSelectIdea(I), whatever was selected and drafted before, the
\* selected idea is I, a card of the queue, and scores and rationales are empty.
C12_SelectDiscardsThePriorDraft ==
    last = "select"
    => ( /\ \E k \in 1..Len(pendingIdeas) : selectedIdea = pendingIdeas[k]
         /\ scores = EmptyMap
         /\ rationales = EmptyMap )

\* C12 witness: an idea has just been selected while the complete draft of another
\* idea is still with the store
C12_Witness ==
    /\ last = "select"
    /\ \E c \in BagToSet(subCalls) : c.id # selectedIdea.id

\* C13: scores and rationales never hold a key that is none of the seven dimensions.
C13_OnlyTheSevenDimensions ==
    \A k \in OtherKeys : scores[k] = Undefined /\ rationales[k] = Undefined

\* C14: Cancel issues no store write and no store query, and leaves the status of
\* every idea in the store as it is.
C14_CancelTouchesNoStore ==
    [][ last' = "cancel"
        => UNCHANGED << status, updCalls, subCalls, fetchQ1, fetchQ2 >> ]_vars

\* C14 witness: right after Cancel an idea that selection had moved to under_review is
\* still under_review
C14_Witness ==
    /\ last = "cancel"
    /\ \E i \in Ideas : InitStatus[i] = "submitted" /\ status[i] = "under_review"

\* C15: when the updateIdeaStatus call of handleSelectIdea fails, an error is shown.
C15_FailedUpdateIsReported ==
    last = "updateFailed" => toast = "error"

\* the ids of the ideas the store holds as submitted or under_review
StorePending == { i \in Ideas : status[i] \in { "submitted", "under_review" } }

\* the ids of the ideas on the displayed list
Displayed == { pendingIdeas[k].id : k \in 1..Len(pendingIdeas) }

\* C16: once no store call and no refresh is outstanding, the displayed pending list
\* holds exactly the ideas the store has as submitted or under_review.
C16_SettledListMatchesTheStore ==
    InFlight = 0 => Displayed = StorePending

\* C17: every submitAssessment record handed to the store for an idea holds only
\* scores and rationales entered while that idea was the selected one, since its
\* latest selection.
C17_RecordHoldsOnlyInputForItsIdea ==
    [][ \A c \in BagToSet(subCalls') : Issued(c) => owners \subseteq { c.id } ]_vars

\* C17 witness: a submit has just been issued for an idea, with a draft entered for
\* it alone, after another idea had been selected (and so moved to under_review)
C17_Witness ==
    /\ last = "submit"
    /\ owners = { selectedIdea.id }
    /\ \E i \in Ideas :
          /\ i # selectedIdea.id
          /\ InitStatus[i] = "submitted"
          /\ status[i] = "under_review"

\* C18: the displayed pending list never holds the same idea id twice.
C18_NoDuplicateInTheList ==
    \A j, k \in 1..Len(pendingIdeas) : pendingIdeas[j].id = pendingIdeas[k].id => j = k

\* C19: submitting is true only while a submitAssessment call is outstanding, the step
\* on which such a call resolves or fails leaves it false, and a refused submit
\* leaves it as it was.
C19_SubmittingTracksTheOutstandingCall ==
    [][ /\ submitting' => subCalls' # EmptyBag
        /\ (\E c \in BagToSet(subCalls) : Settled(c)) => ~submitting'
        /\ last' = "submitRefused" => submitting' = submitting ]_vars

\* C19 witness: a submit that passed validation has failed and the flag is false,
\* with the complete draft still selected
C19_Witness ==
    /\ last = "submitFailed"
    /\ ~submitting
    /\ selectedIdea # NoIdea
    /\ isComplete

====
